---- MODULE Spec2Model ----
(***************************************************************************)
(* A model of symfetch's src/system_info.rs: SystemInfo::new gathers a     *)
(* fixed set of facts about the machine into a report, SystemInfo::as_vec  *)
(* renders the report as a sequence of lines.                              *)
(*                                                                         *)
(* Text that the code inspects character by character (environment values, *)
(* the CPU brand) is a sequence of one-character strings; text the code    *)
(* only builds and stores (the report's fields, the rendered lines) is a   *)
(* string.  A u64 is the sequence of its 8 bytes, most significant first,  *)
(* so that the full range of the OS counters and the wrap-around of their  *)
(* sums are represented exactly.                                           *)
(***************************************************************************)
EXTENDS Integers, Naturals, Sequences, FiniteSets, TLC

\* ------------------------------------------------------------------ bounds
\* Longest SHELL value enumerated over Alphabet (named examples are added).
MaxLen == 2
\* Longest list of storage volumes.
MaxDisks == 2
\* How often as_vec is called on the report.
MaxCalls == 2
\* How many minutes the wall clock may advance after construction.
MaxTicks == 1

\* ------------------------------------------------------- u64 arithmetic
\* A u64 is its 8 bytes, most significant first.  Every operator works on
\* any width, so that exact (unwrapped) sums can be formed on wider numbers.
U64Bytes == 8

RECURSIVE NatBytes(_, _)
\* The k low bytes of n, most significant first.
NatBytes(n, k) ==
  IF k = 0 THEN <<>> ELSE Append(NatBytes(n \div 256, k - 1), n % 256)

\* The u64 with value n (n below 2^31).
FromNat(n) == NatBytes(n, U64Bytes)

\* The smallest and the largest number of k bytes.
Zeros(k) == [i \in 1..k |-> 0]
Ones(k) == [i \in 1..k |-> 255]

IsZero(x) == \A i \in 1..Len(x) : x[i] = 0

RECURSIVE DivFrom(_, _, _, _)
\* Long division of x by d (0 < d < 2^23), bytes i..Len(x) left to process,
\* r the remainder so far.
DivFrom(x, d, i, r) ==
  IF i > Len(x) THEN [q |-> <<>>, r |-> r]
  ELSE LET v == 256 * r + x[i]
           rest == DivFrom(x, d, i + 1, v % d)
       IN [q |-> <<v \div d>> \o rest.q, r |-> rest.r]

\* u64 `/`: the quotient, as a u64.
Div(x, d) == DivFrom(x, d, 1, 0).q
\* u64 `%`: the remainder, a number below d.
Rem(x, d) == DivFrom(x, d, 1, 0).r

RECURSIVE AddFrom(_, _, _, _)
AddFrom(x, y, i, c) ==
  IF i = 0 THEN [bytes |-> <<>>, carry |-> c]
  ELSE LET v == x[i] + y[i] + c
           rest == AddFrom(x, y, i - 1, v \div 256)
       IN [bytes |-> Append(rest.bytes, v % 256), carry |-> rest.carry]

\* x + y on equal widths: the wrapped sum and whether it overflowed.
Add(x, y) ==
  LET s == AddFrom(x, y, Len(x), 0)
  IN [val |-> s.bytes, overflow |-> s.carry # 0]

RECURSIVE SubFrom(_, _, _, _)
SubFrom(x, y, i, b) ==
  IF i = 0 THEN [bytes |-> <<>>, borrow |-> b]
  ELSE LET v == x[i] - y[i] - b
           rest == SubFrom(x, y, i - 1, IF v < 0 THEN 1 ELSE 0)
       IN [bytes |-> Append(rest.bytes, (v + 256) % 256),
           borrow |-> rest.borrow]

\* x - y on equal widths: the wrapped difference and whether it underflowed.
Sub(x, y) ==
  LET s == SubFrom(x, y, Len(x), 0)
  IN [val |-> s.bytes, overflow |-> s.borrow # 0]

RECURSIVE MulFrom(_, _, _, _)
MulFrom(x, m, i, c) ==
  IF i = 0 THEN [bytes |-> <<>>, carry |-> c]
  ELSE LET v == x[i] * m + c
           rest == MulFrom(x, m, i - 1, v \div 256)
       IN [bytes |-> Append(rest.bytes, v % 256), carry |-> rest.carry]

\* x * m (0 <= m < 2^23): the wrapped product and whether it overflowed.
Mul(x, m) ==
  LET s == MulFrom(x, m, Len(x), 0)
  IN [val |-> s.bytes, overflow |-> s.carry # 0]

Digit == <<"0", "1", "2", "3", "4", "5", "6", "7", "8", "9">>

RECURSIVE PadDigits(_, _)
\* The w low decimal digits of n, zero-padded.
PadDigits(n, w) ==
  IF w = 0 THEN "" ELSE PadDigits(n \div 10, w - 1) \o Digit[(n % 10) + 1]

RECURSIVE NatDigits(_)
NatDigits(n) ==
  IF n = 0 THEN "" ELSE NatDigits(n \div 10) \o Digit[(n % 10) + 1]

RECURSIVE DecDigits(_)
\* The decimal digits of x # 0, six at a time from the low end.
DecDigits(x) ==
  LET s == DivFrom(x, 1000000, 1, 0)
  IN IF IsZero(s.q) THEN NatDigits(s.r)
     ELSE DecDigits(s.q) \o PadDigits(s.r, 6)

\* `{}` of an unsigned integer: its decimal digits, "0" for zero.
Dec(x) == IF IsZero(x) THEN "0" ELSE DecDigits(x)

\* `{}` of a small integer held as a number.
DecNat(n) == IF n = 0 THEN "0" ELSE NatDigits(n)

\* ------------------------------------------------------------------- text
RECURSIVE Str(_)
\* The String holding the characters cs.
Str(cs) == IF cs = <<>> THEN "" ELSE Head(cs) \o Str(Tail(cs))

\* The characters of the placeholder "Unknown".
Unknown == <<"U", "n", "k", "n", "o", "w", "n">>

\* Result / Option values: Ok(v) or Some(v), and Err or None.
Ok(v) == [ok |-> TRUE, val |-> v]
Err == [ok |-> FALSE, val |-> <<>>]

\* unwrap_or / unwrap_or_else with a constant default.
UnwrapOr(r, default) == IF r.ok THEN r.val ELSE default

\* Result::or_else: the alternative is used only on Err.
OrElse(r, alt) == IF r.ok THEN r ELSE alt

\* A variable of the process environment: absent, present with bytes that
\* are not valid Unicode, or present with text.
Unset == [set |-> FALSE, unicode |-> TRUE, chars |-> <<>>]
NotUnicode == [set |-> TRUE, unicode |-> FALSE, chars |-> <<>>]
Val(cs) == [set |-> TRUE, unicode |-> TRUE, chars |-> cs]

\* std::env::var: Err(NotPresent), Err(NotUnicode) or Ok(text).
EnvVar(v) == IF v.set /\ v.unicode THEN Ok(v.chars) ELSE Err

RECURSIVE SplitFrom(_, _, _, _)
\* str::split from character i on, cur the segment being collected.  A
\* separator closes the segment; the end of the text closes the last one,
\* so the result always has at least one segment.
SplitFrom(cs, sep, i, cur) ==
  IF i > Len(cs) THEN <<cur>>
  ELSE IF cs[i] = sep THEN <<cur>> \o SplitFrom(cs, sep, i + 1, <<>>)
  ELSE SplitFrom(cs, sep, i + 1, Append(cur, cs[i]))

Split(cs, sep) == SplitFrom(cs, sep, 1, <<>>)

\* DoubleEndedIterator::next_back on the segments: the last one, if any.
NextBack(segs) == IF Len(segs) = 0 THEN Err ELSE Ok(segs[Len(segs)])

IsSpace(c) == c \in {" ", "\t"}

RECURSIVE TrimStart(_)
TrimStart(cs) ==
  IF cs # <<>> /\ IsSpace(Head(cs)) THEN TrimStart(Tail(cs)) ELSE cs

RECURSIVE TrimEnd(_)
TrimEnd(cs) ==
  IF cs # <<>> /\ IsSpace(cs[Len(cs)])
  THEN TrimEnd(SubSeq(cs, 1, Len(cs) - 1)) ELSE cs

\* str::trim.
Trim(cs) == TrimEnd(TrimStart(cs))

\* ------------------------------------------------------- SystemInfo::new
\* user / hostname: the lookup's text, "Unknown" on failure.
NameOrUnknown(r) == Str(UnwrapOr(r, Unknown))

\* os_info: long OS version and kernel version, each "Unknown" if missing.
OsInfo(long_os_version, kernel_version) ==
  Str(UnwrapOr(long_os_version, Unknown)) \o " "
    \o Str(UnwrapOr(kernel_version, Unknown))

UptimeDays(uptime_secs) == Div(uptime_secs, 86400)
UptimeHours(uptime_secs) == Rem(uptime_secs, 86400) \div 3600
\* A slip: the minutes of the day, the hours not taken out.
UptimeMinutesOfDay(uptime_secs) == Rem(uptime_secs, 86400) \div 60
UptimeMinutes(uptime_secs) == Rem(uptime_secs, 3600) \div 60

Uptime(uptime_secs) ==
  Dec(UptimeDays(uptime_secs)) \o "d "
    \o DecNat(UptimeHours(uptime_secs)) \o "h "
    \o DecNat(UptimeMinutes(uptime_secs)) \o "m"

\* shell: the last '/'-separated segment of SHELL, or of "Unknown" when
\* SHELL cannot be read.
Shell(SHELL) ==
  Str(UnwrapOr(NextBack(Split(UnwrapOr(EnvVar(SHELL), Unknown), "/")),
               Unknown))

\* A slip: the two variables consulted in the other order.
WindowManagerSessionFirst(XDG_CURRENT_DESKTOP, DESKTOP_SESSION) ==
  Str(UnwrapOr(OrElse(EnvVar(DESKTOP_SESSION), EnvVar(XDG_CURRENT_DESKTOP)),
               Unknown))

WindowManager(XDG_CURRENT_DESKTOP, DESKTOP_SESSION) ==
  Str(UnwrapOr(OrElse(EnvVar(XDG_CURRENT_DESKTOP), EnvVar(DESKTOP_SESSION)),
               Unknown))

Terminal(TERM) == Str(UnwrapOr(EnvVar(TERM), Unknown))

\* cpu: the first CPU's trimmed brand and the number of CPUs.
CpuInfo(cpus) ==
  IF Len(cpus) > 0
  THEN Str(Trim(cpus[1])) \o " (" \o DecNat(Len(cpus)) \o " cores)"
  ELSE "Unknown"

\* A slip: one division by 1024 only.
MegaBytesOnce(bytes) == Div(bytes, 1024)

\* A byte count in MB as the code computes it: / 1024 / 1024.
MegaBytes(bytes) == Div(Div(bytes, 1024), 1024)

Memory(used_memory, total_memory) ==
  Dec(MegaBytes(used_memory)) \o "MB / "
    \o Dec(MegaBytes(total_memory)) \o "MB"

\* One iteration of the loop over the disks.  With overflow checks (a debug
\* build) an overflowing `+=` or `-` panics; without them it wraps.
StorageStep(acc, disk, overflow_checks) ==
  LET t == Add(acc.total_storage, disk.total_space)
      d == Sub(disk.total_space, disk.available_space)
      u == Add(acc.used_storage, d.val)
  IN [total_storage |-> t.val,
      used_storage |-> u.val,
      panicked |-> acc.panicked
        \/ (overflow_checks /\ (t.overflow \/ d.overflow \/ u.overflow))]

RECURSIVE StorageLoop(_, _, _, _)
\* The loop from disk i on; it stops at the first panic.
StorageLoop(disks, i, acc, overflow_checks) ==
  IF i > Len(disks) \/ acc.panicked THEN acc
  ELSE StorageLoop(disks, i + 1,
                   StorageStep(acc, disks[i], overflow_checks),
                   overflow_checks)

\* The totals after the loop, starting from 0 and 0.
StorageTotals(disks, overflow_checks) ==
  StorageLoop(disks, 1,
              [total_storage |-> Zeros(U64Bytes), used_storage |-> Zeros(U64Bytes),
               panicked |-> FALSE],
              overflow_checks)

\* A byte count in GB as the code computes it: / 1024 / 1024 / 1024.
GigaBytes(bytes) == Div(Div(Div(bytes, 1024), 1024), 1024)

Storage(totals) ==
  Dec(GigaBytes(totals.used_storage)) \o "GB / "
    \o Dec(GigaBytes(totals.total_storage)) \o "GB"

\* ---------------------------------------------------- SystemInfo::as_vec
\* A colored string as displayed: wrapped in the ANSI sequence for its
\* style when the process colorizes, plain otherwise.  "<ESC>" stands for
\* the escape character.
Paint(style, text, colorize) ==
  IF colorize THEN "<ESC>[" \o style \o "m" \o text \o "<ESC>[0m" ELSE text

BoldCyan(text, colorize) == Paint("1;36", text, colorize)
BoldYellow(text, colorize) == Paint("1;33", text, colorize)
Dimmed(text, colorize) == Paint("2", text, colorize)

\* datetime.format("%m/%d/%y %H:%M")
FormatDateTime(dt) ==
  PadDigits(dt.month, 2) \o "/" \o PadDigits(dt.day, 2) \o "/"
    \o PadDigits(dt.year % 100, 2) \o " "
    \o PadDigits(dt.hour, 2) \o ":" \o PadDigits(dt.minute, 2)

Header(self, colorize) ==
  BoldCyan(self.user, colorize) \o "@" \o BoldCyan(self.hostname, colorize)
    \o " (" \o Dimmed(FormatDateTime(self.datetime), colorize) \o ")"

\* format!("{} {}", label.bold().yellow(), value)
Line(label, value, colorize) == BoldYellow(label, colorize) \o " " \o value

\* A slip: the blank line after the header left out.
as_vec_no_blank(self, colorize) ==
  << Header(self, colorize),
     Line("OS:", self.os_info, colorize),
     Line("Uptime:", self.uptime, colorize),
     Line("Shell:", self.shell, colorize),
     Line("Displays:", self.displays, colorize),
     Line("WM:", self.window_manager, colorize),
     Line("Terminal:", self.terminal, colorize),
     Line("Font:", self.font, colorize),
     Line("CPU:", self.cpu, colorize),
     Line("GPU:", self.gpu, colorize),
     Line("Memory:", self.memory, colorize),
     Line("Storage:", self.storage, colorize) >>

\* A slip: the Memory and Storage labels paired with each other's value.
as_vec_swapped(self, colorize) ==
  << Header(self, colorize),
     "",
     Line("OS:", self.os_info, colorize),
     Line("Uptime:", self.uptime, colorize),
     Line("Shell:", self.shell, colorize),
     Line("Displays:", self.displays, colorize),
     Line("WM:", self.window_manager, colorize),
     Line("Terminal:", self.terminal, colorize),
     Line("Font:", self.font, colorize),
     Line("CPU:", self.cpu, colorize),
     Line("GPU:", self.gpu, colorize),
     Line("Memory:", self.storage, colorize),
     Line("Storage:", self.memory, colorize) >>

\* The lines pushed by as_vec, in order.
as_vec(self, colorize) ==
  << Header(self, colorize),
     "",
     Line("OS:", self.os_info, colorize),
     Line("Uptime:", self.uptime, colorize),
     Line("Shell:", self.shell, colorize),
     Line("Displays:", self.displays, colorize),
     Line("WM:", self.window_manager, colorize),
     Line("Terminal:", self.terminal, colorize),
     Line("Font:", self.font, colorize),
     Line("CPU:", self.cpu, colorize),
     Line("GPU:", self.gpu, colorize),
     Line("Memory:", self.memory, colorize),
     Line("Storage:", self.storage, colorize) >>

\* ------------------------------------------------------------------ state
VARIABLES
  env,              \* the process environment: SHELL, XDG_CURRENT_DESKTOP,
                    \* DESKTOP_SESSION, TERM
  os,               \* what the OS lookups answer
  overflow_checks,  \* whether the build panics on integer overflow
  colorize,         \* whether colored strings are displayed with styles
  now,              \* the local wall clock
  ticks,            \* minutes the clock advanced since construction
  pc,               \* "start", "constructed" or "panicked"
  info,             \* the SystemInfo, <<>> while there is none
  calls,            \* calls of as_vec so far
  lines             \* what the last call of as_vec returned

vars == <<env, os, overflow_checks, colorize, now, ticks, pc, info, calls,
          lines>>

\* The struct SystemInfo::new returns when it does not panic.
NewInfo(totals) ==
  [user |-> NameOrUnknown(os.username),
   hostname |-> NameOrUnknown(os.hostname),
   datetime |-> now,
   os_info |-> OsInfo(os.long_os_version, os.kernel_version),
   uptime |-> Uptime(os.uptime),
   shell |-> Shell(env.SHELL),
   displays |-> "1",
   window_manager |->
     WindowManager(env.XDG_CURRENT_DESKTOP, env.DESKTOP_SESSION),
   terminal |-> Terminal(env.TERM),
   font |-> "Unknown",
   cpu |-> CpuInfo(os.cpus),
   gpu |-> "Unknown",
   memory |-> Memory(os.used_memory, os.total_memory),
   storage |-> Storage(totals)]

\* SystemInfo::new: the report, or a panic in the loop over the disks.
New ==
  /\ pc = "start"
  /\ LET totals == StorageTotals(os.disks, overflow_checks)
     IN /\ pc' = IF totals.panicked THEN "panicked" ELSE "constructed"
        /\ info' = IF totals.panicked THEN info ELSE NewInfo(totals)
  /\ UNCHANGED <<env, os, overflow_checks, colorize, now, ticks, calls, lines>>

\* A slip: as_vec takes the time of the call for the header instead of the
\* time stored at construction.
AsVecRefreshing ==
  /\ pc = "constructed"
  /\ calls < MaxCalls
  /\ info' = [info EXCEPT !.datetime = now]
  /\ lines' = as_vec(info', colorize)
  /\ calls' = calls + 1
  /\ UNCHANGED <<env, os, overflow_checks, colorize, now, ticks, pc>>

\* SystemInfo::as_vec on the report (&self: the report is only read).
AsVec ==
  /\ pc = "constructed"
  /\ calls < MaxCalls
  /\ lines' = as_vec(info, colorize)
  /\ calls' = calls + 1
  /\ UNCHANGED <<env, os, overflow_checks, colorize, now, ticks, pc, info>>

\* A minute passes while the report exists.
Tick ==
  /\ pc = "constructed"
  /\ ticks < MaxTicks
  /\ ~(now.hour = 23 /\ now.minute = 59)
  /\ now' = IF now.minute < 59
            THEN [now EXCEPT !.minute = @ + 1]
            ELSE [now EXCEPT !.minute = 0, !.hour = @ + 1]
  /\ ticks' = ticks + 1
  /\ UNCHANGED <<env, os, overflow_checks, colorize, pc, info, calls, lines>>

Next == New \/ AsVec \/ Tick

\* ----------------------------------------------------------------- inputs
Zsh == <<"/", "u", "s", "r", "/", "b", "i", "n", "/", "z", "s", "h">>
Gnome == <<"G", "N", "O", "M", "E">>
GnomeSession == <<"g", "n", "o", "m", "e">>
Xterm == <<"x", "t", "e", "r", "m">>
Alice == <<"a", "l", "i", "c", "e">>
Box == <<"b", "o", "x">>
Linux == <<"L", "i", "n", "u", "x">>
Kernel == <<"6", ".", "1">>
Brand == <<" ", "R", "y", "z", "e", "n", " ">>

Alphabet == {"/", "z"}
\* Every text over Alphabet of at most n characters.
Texts(n) == UNION {[1..k -> Alphabet] : k \in 0..n}

Present(texts) == {Val(t) : t \in texts}

ShellValues ==
  {Unset, NotUnicode} \cup Present(Texts(MaxLen) \cup {Zsh, Unknown})
DesktopValues == {Unset, NotUnicode} \cup Present({<<>>, Gnome, Unknown})
SessionValues == {Unset, NotUnicode} \cup Present({<<>>, GnomeSession})
TermValues == {Unset, NotUnicode} \cup Present({<<>>, Xterm})

KiB(n) == Mul(FromNat(n), 1024).val
MiB(n) == Mul(KiB(n), 1024).val
GiB(n) == Mul(MiB(n), 1024).val

UptimeValues ==
  {FromNat(0), FromNat(59), FromNat(60), FromNat(3599), FromNat(3600),
   FromNat(86399), FromNat(86400), FromNat(90061), Ones(U64Bytes)}

Mem(used, total) == [used_memory |-> used, total_memory |-> total]
MemoryValues ==
  {Mem(FromNat(0), FromNat(0)), Mem(FromNat(1048575), FromNat(1048576)),
   Mem(FromNat(1572864), FromNat(2097151)),
   Mem(GiB(2), GiB(8)), Mem(Ones(U64Bytes), Ones(U64Bytes))}

Disk(total, available) ==
  [total_space |-> total, available_space |-> available]
\* Two ordinary volumes, one whose size is not a whole number of GB, one
\* reporting more available than total space, one of 2^63 bytes.
DiskValues ==
  {Disk(GiB(100), GiB(60)), Disk(GiB(50), GiB(50)),
   Disk(MiB(1536), FromNat(0)), Disk(FromNat(0), FromNat(1)),
   Disk(<<128, 0, 0, 0, 0, 0, 0, 0>>, FromNat(0))}

\* Every list of at most n of the given disks.
DiskLists(disks, n) == UNION {[1..k -> disks] : k \in 0..n}

Clocks ==
  {[month |-> 11, day |-> 6, year |-> 2026, hour |-> 9, minute |-> 5],
   [month |-> 1, day |-> 2, year |-> 2003, hour |-> 10, minute |-> 59]}

EnvOver(shells, desktops, sessions, terms) ==
  [SHELL : shells, XDG_CURRENT_DESKTOP : desktops,
   DESKTOP_SESSION : sessions, TERM : terms]

OsOver(users, hosts, versions, kernels, uptimes, cpuss, mems, diskss) ==
  {[username |-> u, hostname |-> h, long_os_version |-> v,
    kernel_version |-> k, uptime |-> t, cpus |-> c,
    used_memory |-> m.used_memory, total_memory |-> m.total_memory,
    disks |-> d] :
     u \in users, h \in hosts, v \in versions, k \in kernels, t \in uptimes,
     c \in cpuss, m \in mems, d \in diskss}

InitOver(envs, oss, builds, colors) ==
  /\ env \in envs
  /\ os \in oss
  /\ overflow_checks \in builds
  /\ colorize \in colors
  /\ now \in Clocks
  /\ ticks = 0
  /\ pc = "start"
  /\ info = <<>>
  /\ calls = 0
  /\ lines = <<>>

\* Rendering: a few values of every input, with and without styles.
Init ==
  InitOver(
    EnvOver({Unset, Val(<<>>), Val(Zsh)}, {Unset, Val(Gnome)},
            {Val(GnomeSession)},
            {Unset, Val(Xterm)}),
    OsOver({Err, Ok(Alice)}, {Err, Ok(Box)}, {Err, Ok(Linux)}, {Ok(Kernel)},
           {FromNat(90061)}, {<<>>, <<Brand>>, <<Brand, Brand>>},
           {Mem(GiB(2), GiB(8))},
           DiskLists({Disk(GiB(100), GiB(60))}, MaxDisks)),
    {FALSE}, BOOLEAN)

\* The environment: every state of the four variables, the OS fixed.
InitEnv ==
  InitOver(
    EnvOver(ShellValues, DesktopValues, SessionValues, TermValues),
    OsOver({Err, Ok(Alice)}, {Ok(Box)}, {Ok(Linux)}, {Ok(Kernel)},
           {FromNat(90061)}, {<<Brand>>}, {Mem(GiB(2), GiB(8))},
           {<<Disk(GiB(100), GiB(60))>>}),
    {FALSE}, {FALSE})

\* The OS counters: every uptime, memory reading and list of disks, in a
\* build with and without overflow checks, the environment fixed.
InitNum ==
  InitOver(
    EnvOver({Val(Zsh)}, {Val(Gnome)}, {Unset}, {Val(Xterm)}),
    OsOver({Ok(Alice)}, {Ok(Box)}, {Ok(Linux)}, {Ok(Kernel)},
           UptimeValues, {<<Brand>>}, MemoryValues,
           DiskLists(DiskValues, MaxDisks)),
    BOOLEAN, {FALSE})

Spec == Init /\ [][Next]_vars
SpecEnv == InitEnv /\ [][Next]_vars
SpecNum == InitNum /\ [][Next]_vars

\* ----------------------------------------------------------------- claims
TextFields ==
  {"user", "hostname", "os_info", "uptime", "shell", "displays",
   "window_manager", "terminal", "font", "cpu", "gpu", "memory", "storage"}

\* C1: every text field of a constructed report is a non-empty string;
\* missing data yields "Unknown", never an empty field.
C1_EveryFieldNonEmpty ==
  pc = "constructed" => \A f \in TextFields : info[f] # ""

\* The text after the last '/' of cs (all of cs when it has none): the
\* suffix without '/' that starts the text or follows a '/'.
AfterLastSlash(cs) ==
  CHOOSE suf \in {SubSeq(cs, i, Len(cs)) : i \in 1..(Len(cs) + 1)} :
    /\ \A j \in 1..Len(suf) : suf[j] # "/"
    /\ Len(suf) = Len(cs) \/ cs[Len(cs) - Len(suf)] = "/"

\* C2: shell is the text after the last '/' of SHELL, and "Unknown" when
\* SHELL is unset, empty, or empty after the path is stripped.
C2_ShellIsBasename ==
  pc = "constructed" =>
    /\ ~env.SHELL.set => info.shell = "Unknown"
    /\ env.SHELL.set /\ env.SHELL.unicode =>
         LET base == AfterLastSlash(env.SHELL.chars)
         IN info.shell = IF base = <<>> THEN "Unknown" ELSE Str(base)

\* C3 as stated: window_manager is the value of XDG_CURRENT_DESKTOP whenever
\* that is set, the value of DESKTOP_SESSION when XDG_CURRENT_DESKTOP is
\* unset and DESKTOP_SESSION is set, and "Unknown" exactly when both are
\* unset.  The statement is read for variables that are unset or hold text;
\* it says nothing of a value that is not valid Unicode.
C3_WindowManagerAsStated ==
  pc = "constructed" /\ env.XDG_CURRENT_DESKTOP.unicode
    /\ env.DESKTOP_SESSION.unicode =>
    LET x == env.XDG_CURRENT_DESKTOP
        d == env.DESKTOP_SESSION
    IN /\ x.set => info.window_manager = Str(x.chars)
       /\ ~x.set /\ d.set => info.window_manager = Str(d.chars)
       /\ info.window_manager = "Unknown" <=> (~x.set /\ ~d.set)

\* The variable v can be read as text: it is set and valid Unicode.
Readable(v) == v.set /\ v.unicode

\* C3: window_manager is the value of XDG_CURRENT_DESKTOP whenever that is
\* readable (whatever DESKTOP_SESSION is), the value of DESKTOP_SESSION when
\* XDG_CURRENT_DESKTOP is not readable and DESKTOP_SESSION is, and "Unknown"
\* when neither is readable; it is "Unknown" only then or when the variable
\* it is taken from has the value "Unknown".
C3_WindowManagerFallback ==
  pc = "constructed" =>
    LET x == env.XDG_CURRENT_DESKTOP
        d == env.DESKTOP_SESSION
        wm == info.window_manager
    IN /\ Readable(x) => wm = Str(x.chars)
       /\ ~Readable(x) /\ Readable(d) => wm = Str(d.chars)
       /\ ~Readable(x) /\ ~Readable(d) => wm = "Unknown"
       /\ wm = "Unknown" =>
            \/ ~Readable(x) /\ ~Readable(d)
            \/ Readable(x) /\ x.chars = Unknown
            \/ ~Readable(x) /\ Readable(d) /\ d.chars = Unknown

\* The fallback is taken: XDG_CURRENT_DESKTOP unset, DESKTOP_SESSION "gnome".
C3_Witness ==
  /\ pc = "constructed"
  /\ env.XDG_CURRENT_DESKTOP = Unset
  /\ env.DESKTOP_SESSION = Val(GnomeSession)
  /\ info.window_manager = "gnome"

\* C4: SystemInfo::new never fails, whatever the lookups answer and whatever
\* the volumes report: no arithmetic underflow or overflow aborts it.
C4_NewNeverFails == pc # "panicked"

RECURSIVE LessFrom(_, _, _)
LessFrom(x, y, i) ==
  IF i > Len(x) THEN FALSE
  ELSE IF x[i] # y[i] THEN x[i] < y[i]
  ELSE LessFrom(x, y, i + 1)

\* x < y on equal widths.
Less(x, y) == LessFrom(x, y, 1)

\* x with two more leading bytes, wide enough for the exact sums.
Widen(x) == <<0, 0>> \o x

RECURSIVE ExactSum(_, _)
\* The exact sum of the first n numbers of xs, on widened numbers.
ExactSum(xs, n) ==
  IF n = 0 THEN Widen(Zeros(U64Bytes))
  ELSE Add(ExactSum(xs, n - 1), Widen(xs[n])).val

\* q is x divided by 1,073,741,824 with integer division:
\* q * 2^30 <= x < q * 2^30 + 2^30.
IsGiBQuotient(q, x) ==
  LET p == Mul(Mul(Mul(q, 1024).val, 1024).val, 1024).val
  IN /\ ~Less(x, p)
     /\ Less(Sub(x, p).val, Widen(GiB(1)))

\* The text of an exact byte count divided by 1,073,741,824.
ExactGB(x) ==
  LET q == Div(Div(Div(x, 1024), 1024), 1024)
  IN IF IsGiBQuotient(q, x) THEN Dec(q) ELSE "?"

\* The storage field as C5 states it, from the exact sums over the volumes.
\* The sum of total - available is negative when the volumes report more
\* available than total space; the quotient is then rounded towards zero.
ExactStorage(disks) ==
  LET n == Len(disks)
      total == ExactSum([i \in 1..n |-> disks[i].total_space], n)
      avail == ExactSum([i \in 1..n |-> disks[i].available_space], n)
      used == IF Less(total, avail) THEN Sub(avail, total).val
              ELSE Sub(total, avail).val
      sign == IF Less(total, avail) /\ ExactGB(used) # "0" THEN "-" ELSE ""
  IN sign \o ExactGB(used) \o "GB / " \o ExactGB(total) \o "GB"

\* C5: for every list of volumes the storage field is "{U}GB / {T}GB" with
\* T the sum of the total_space values and U the sum of the
\* total_space - available_space values, each sum divided by 1,073,741,824.
C5_StorageOfExactSums ==
  pc = "constructed" => info.storage = ExactStorage(os.disks)

\* What remains of C5 when the arithmetic stays in range: on every list of
\* volumes where no `+=` or `-` of the loop overflows, the storage field is
\* the text of the exact sums.
C5_ExactWithoutOverflow ==
  pc = "constructed" /\ ~StorageTotals(os.disks, TRUE).panicked =>
    info.storage = ExactStorage(os.disks)

\* C6: for an uptime of S seconds the field is "{d}d {h}h {m}m" with
\* d = S div 86400, h = (S mod 86400) div 3600, m = (S mod 3600) div 60;
\* h is in 0..23, m in 0..59 and
\* d*86400 + h*3600 + m*60 <= S < d*86400 + h*3600 + m*60 + 60.
C6_UptimeFormat ==
  pc = "constructed" =>
    LET S == os.uptime
        d == Div(S, 86400)
        h == Rem(S, 86400) \div 3600
        m == Rem(S, 3600) \div 60
        days == Mul(d, 86400)
        low == Add(days.val, FromNat(h * 3600 + m * 60))
    IN /\ info.uptime = Dec(d) \o "d " \o DecNat(h) \o "h " \o DecNat(m) \o "m"
       /\ h \in 0..23
       /\ m \in 0..59
       /\ ~days.overflow /\ ~low.overflow
       /\ ~Less(S, low.val)
       /\ Less(Sub(S, low.val).val, FromNat(60))

\* An uptime of 90061 seconds is shown as "1d 1h 1m".
C6_Witness ==
  /\ pc = "constructed"
  /\ os.uptime = FromNat(90061)
  /\ info.uptime = "1d 1h 1m"

\* C7: as_vec returns exactly 13 lines: a header line, an empty line, then
\* 11 field lines, whichever fields hold placeholders.
C7_ThirteenLines ==
  calls > 0 =>
    /\ Len(lines) = 13
    /\ lines[2] = ""
    /\ \A i \in (1..13) \ {2} : lines[i] # ""

\* as_vec was called on a report whose user, OS version, shell and CPU fell
\* back to the placeholder.
C7_Witness ==
  /\ calls > 0
  /\ info.user = "Unknown"
  /\ info.os_info = "Unknown 6.1"
  /\ info.shell = "Unknown"
  /\ info.cpu = "Unknown"

\* C8: a call of as_vec leaves every field of the report unchanged, and every
\* call after the first returns the same lines as the call before it.
C8_RenderingPure ==
  [][calls' # calls => /\ info' = info
                       /\ calls > 0 => lines' = lines]_vars

\* as_vec was called again after the clock had moved on.
C8_Witness ==
  /\ calls >= 2
  /\ ticks > 0
  /\ now # info.datetime
  /\ lines = as_vec(info, colorize)

Labels ==
  <<"OS", "Uptime", "Shell", "Displays", "WM", "Terminal", "Font", "CPU",
    "GPU", "Memory", "Storage">>

FieldOfLabel ==
  <<"os_info", "uptime", "shell", "displays", "window_manager", "terminal",
    "font", "cpu", "gpu", "memory", "storage">>

\* The label as displayed: bold yellow when styles are on, plain otherwise.
Emphasized(label) ==
  IF colorize THEN "<ESC>[1;33m" \o label \o "<ESC>[0m" ELSE label

\* C9: lines 3 to 13 are, in this order, OS, Uptime, Shell, Displays, WM,
\* Terminal, Font, CPU, GPU, Memory, Storage: the label with a trailing
\* colon, one space, and the stored value of that label's field.
C9_LabelledLines ==
  calls > 0 =>
    \A i \in 1..11 :
      lines[i + 2] = Emphasized(Labels[i] \o ":") \o " "
                       \o info[FieldOfLabel[i]]

\* Plain lines of a report whose memory and storage differ.
C9_Witness ==
  /\ calls > 0
  /\ ~colorize
  /\ lines[12] = "Memory: 2048MB / 8192MB"
  /\ lines[13] = "Storage: 40GB / 100GB"

\* C10: the memory field is "{used div 1048576}MB / {total div 1048576}MB":
\* the two divisions by 1024 give what one division by 1,048,576 gives.
C10_MemoryFormat ==
  pc = "constructed" =>
    info.memory = Dec(Div(os.used_memory, 1048576)) \o "MB / "
                    \o Dec(Div(os.total_memory, 1048576)) \o "MB"

\* 2147483648 used of 8589934592 bytes is shown as "2048MB / 8192MB".
C10_Witness ==
  /\ pc = "constructed"
  /\ os.used_memory = GiB(2)
  /\ os.total_memory = GiB(8)
  /\ info.memory = "2048MB / 8192MB"
====
